---- MODULE Spec2Model ----
(***************************************************************************)
(* Memory Harvester Engine: the embedding pipeline                         *)
(* (src/src/mhe/memory/embeddings.py) and hybrid search                    *)
(* (scaffold-v0.10 access/routers/query.py, src/src access/routers/        *)
(* search.py) as state machines.                                           *)
(***************************************************************************)
EXTENDS Integers, Sequences, FiniteSets, TLC

(***************************************************************************)
(* Bounds of the model.                                                    *)
(***************************************************************************)
MaxMessages == 4      \* rows of mhe.message in the store
MaxCards == 1         \* rows of mhe.memory_card in the store
MaxBatch == 2         \* batch_size ranges over 1..MaxBatch
MaxHits == 3          \* rows the two rankings of one search hold together
MaxRagHits == 2       \* rows the message query of one /rag request returns
MaxStatIds == 2       \* ids per kind an embedding row can point at, for the statistics
MaxExportMessages == 2  \* messages of one export handed to parse_export
MaxParseCalls == 2    \* parse_export calls on one ClaudeParser

\* The run_embedding_pipeline calls of a behaviour: each builds its own
\* EmbeddingPipeline on its own session and calls process_embedding_pipeline.
Pipelines == {"p1", "p2"}
Kinds == {"message", "memory_card"}

VARIABLES
    nMessages,   \* the store holds messages 1..nMessages
    nCards,      \* the store holds memory cards 1..nCards
    embedding,   \* rows of mhe.embedding
    batch_size,  \* EmbeddingPipeline.batch_size, the same configuration for every pipeline
    pc,          \* pc[p]: position of p inside process_embedding_pipeline
    kind,        \* kind[p]: which stream p is consuming
    offset,      \* offset[p]: the stream generator's local variable
    batch,       \* batch[p]: the jobs yielded by the stream (set of target ids)
    stats,       \* stats[p]: the counts process_embedding_pipeline returns
    err,         \* err[p]: the exception the last invocation raised, or "none"
    retryOf,     \* retryOf[p]: jobs of the batches whose upsert had failed when p started
    overlapped,  \* two invocations have been active at the same time
    overwrote,   \* an upsert has met a row that was already there
    returned,    \* number of invocations that returned normally so far
    req,         \* the hybrid-search request: q, k and the two weights
    lexHits,     \* rows the lexical ranking matches for req.q, best first
    vecHits,     \* rows the second ranking matches for req.q, best first
    deleted,     \* ids of memory cards whose row is gone while their embedding remains
    fail,        \* the rankings whose query raises during this search
    resp,        \* the response of the search handler, or the pending marker
    threadOf,    \* threadOf[m]: thread_id of stored message m
    createdAt,   \* createdAt[m]: created_at of stored message m
    gone,        \* (kind, id) of the items deleted between the search and the fetch
    sresp,       \* the response of the stitched RAG handler, or the pending marker
    ragReq,      \* the POST /rag request
    ragHits,     \* the messages the /rag message query returns, in the order returned
    ragFail,     \* what raises inside the try block of the /rag handler, or "none"
    ragResp,     \* the response of the /rag handler, or the pending marker
    mstats,      \* the result of get_embedding_stats, or the pending marker
    strict_mode, \* ClaudeParser.strict_mode
    parser_stats,  \* ClaudeParser._stats
    export,      \* the export_data of the last parse_export call
    result,      \* the ParseResult of the last parse_export call
    delivered,   \* messages and artifacts in the data of the results since the last reset
    last_op,     \* the last method called on the parser
    calls,       \* parse_export calls made so far
    rop,         \* rop[c]: the handler client c is calling
    rpc,         \* rpc[c]: number of the statement c issues next, 0 between calls
    rrows,       \* rrows[c]: the rows the statements of c's call have read so far
    rcalls,      \* rcalls[c]: calls of c that have returned
    rconc        \* two calls have been under way at the same time

pvars == <<nMessages, nCards, embedding, batch_size, pc, kind, offset, batch,
           stats, err, retryOf,
           overlapped, overwrote, returned>>

svars == <<req, lexHits, vecHits, deleted, fail, resp>>

tvars == <<threadOf, createdAt, gone, sresp>>

gvars == <<ragReq, ragHits, ragFail, ragResp>>

mvars == <<mstats>>

kvars == <<strict_mode, parser_stats, export, result, delivered, last_op, calls>>

cvars == <<rop, rpc, rrows, rcalls, rconc>>

vars == <<pvars, svars, tvars, gvars, mvars, kvars, cvars>>

(***************************************************************************)
(* The store and the embedding client.                                     *)
(***************************************************************************)
\* settings.embed_model or "text-embedding-ada-002"
Model == "text-embedding-ada-002"

\* The ids of the stored items of kind k.
Items(k) == IF k = "message" THEN 1..nMessages ELSE 1..nCards

\* The text a job carries: msg.content, or f"{card.title}\n{card.summary}".
Content(k, i) == IF k = "message" THEN <<"content", i>>
                 ELSE <<"title", i, "\n", "summary", i>>

\* EmbeddingClient.embed: a function of the text alone.
Embed(text) == <<"vec", text>>

\* Rows of the table matching a (target_kind, target_id, model) triple.
RowsFor(rows, k, i, m) ==
    {r \in rows : r.target_kind = k /\ r.target_id = i /\ r.model = m}

\* select(X).outerjoin(Embedding, kind/id/model).where(Embedding.id.is_(None))
Unembedded(rows, k, m) == {i \in Items(k) : RowsFor(rows, k, i, m) = {}}

Min(a, b) == IF a < b THEN a ELSE b
Max(a, b) == IF a > b THEN a ELSE b

\* .limit(limit).offset(off) on a query with no ORDER BY: the number of rows is
\* fixed, which rows they are is up to the database.
LimitOffset(S, limit, off) ==
    {B \in SUBSET S : Cardinality(B) = Min(limit, Max(0, Cardinality(S) - off))}

(***************************************************************************)
(* generate_embeddings_batch and bulk_upsert_embeddings.                   *)
(***************************************************************************)
\* settings.embed_dim or 1536
Dim == 1536

\* The EmbeddingResult list built from the jobs of one batch of kind k.
GenerateEmbeddingsBatch(k, jobs) ==
    {[target_kind |-> k, target_id |-> i, vector |-> Embed(Content(k, i)),
      model |-> Model, dim |-> Dim] : i \in jobs}

\* index_elements of the ON CONFLICT clause.
ConflictKey(r) == <<r.target_kind, r.target_id, r.model>>

\* The row INSERT adds for one result; its primary key is fresh
\* (gen_random_uuid()), here the conflict key and a copy number.
NewRow(rows, res) ==
    [id |-> <<ConflictKey(res),
              Cardinality(RowsFor(rows, res.target_kind, res.target_id, res.model)) + 1>>,
     target_kind |-> res.target_kind, target_id |-> res.target_id,
     model |-> res.model, dim |-> res.dim, vector |-> res.vector]

\* A plain INSERT of one result, with no conflict handling.
InsertOne(rows, res) == rows \cup {NewRow(rows, res)}

\* INSERT ... ON CONFLICT (target_kind, target_id, model) DO UPDATE SET vector
\* for one result.
UpsertOne(rows, res) ==
    LET hit == {r \in rows : ConflictKey(r) = ConflictKey(res)}
    IN  IF hit # {}
        THEN (rows \ hit) \cup {[r EXCEPT !.vector = res.vector] : r \in hit}
        ELSE rows \cup {NewRow(rows, res)}

RECURSIVE BulkUpsert(_, _)
\* The statement bulk_upsert_embeddings executes and commits, over all results.
BulkUpsert(rows, rs) ==
    IF rs = {} THEN rows
    ELSE LET res == CHOOSE x \in rs : \A y \in rs : x.target_id <= y.target_id
         IN  BulkUpsert(UpsertOne(rows, res), rs \ {res})

(***************************************************************************)
(* process_embedding_pipeline, one action per step between two awaits.     *)
(***************************************************************************)
Active(p) == pc[p] \in {"fetch", "batch"}

PInit ==
    /\ nMessages \in 0..MaxMessages
    /\ nCards \in 0..MaxCards
    /\ embedding = {}
    /\ batch_size \in 1..MaxBatch
    /\ pc = [p \in Pipelines |-> "idle"]
    /\ kind = [p \in Pipelines |-> "message"]
    /\ offset = [p \in Pipelines |-> 0]
    /\ batch = [p \in Pipelines |-> {}]
    /\ stats = [p \in Pipelines |-> [messages |-> 0, memory_cards |-> 0]]
    /\ err = [p \in Pipelines |-> "none"]
    /\ retryOf = [p \in Pipelines |-> {}]
    /\ overlapped = FALSE
    /\ overwrote = FALSE
    /\ returned = 0

\* process_embedding_pipeline is called: stats are zeroed and the message
\* stream starts at offset 0.
Start(p) ==
    /\ pc[p] = "idle"
    /\ pc' = [pc EXCEPT ![p] = "fetch"]
    /\ kind' = [kind EXCEPT ![p] = "message"]
    /\ offset' = [offset EXCEPT ![p] = 0]
    /\ batch' = [batch EXCEPT ![p] = {}]
    /\ stats' = [stats EXCEPT ![p] = [messages |-> 0, memory_cards |-> 0]]
    /\ err' = [err EXCEPT ![p] = "none"]
    /\ retryOf' = [retryOf EXCEPT ![p] =
                      UNION {{<<kind[q], i>> : i \in batch[q]} :
                             q \in {r \in Pipelines : err[r] = "upsert"}}]
    /\ overlapped' = (overlapped \/ \E q \in Pipelines \ {p} : Active(q))
    /\ UNCHANGED <<nMessages, nCards, embedding, batch_size, overwrote, returned>>
    /\ UNCHANGED <<svars, tvars, gvars, mvars, kvars, cvars>>

\* The stream's query returns rows: they are yielded as one batch of jobs.
FetchBatch(p) ==
    /\ pc[p] = "fetch"
    /\ \E B \in LimitOffset(Unembedded(embedding, kind[p], Model), batch_size, offset[p]) :
          /\ B # {}
          /\ batch' = [batch EXCEPT ![p] = B]
    /\ pc' = [pc EXCEPT ![p] = "batch"]
    /\ UNCHANGED <<nMessages, nCards, embedding, batch_size, kind, offset,
                   stats, err, retryOf,
                   overlapped, overwrote, returned>>
    /\ UNCHANGED <<svars, tvars, gvars, mvars, kvars, cvars>>

\* The message stream's query returns no row: the stream ends and the memory
\* card stream starts at offset 0.
EndOfMessages(p) ==
    /\ pc[p] = "fetch"
    /\ kind[p] = "message"
    /\ {} \in LimitOffset(Unembedded(embedding, "message", Model), batch_size, offset[p])
    /\ kind' = [kind EXCEPT ![p] = "memory_card"]
    /\ offset' = [offset EXCEPT ![p] = 0]
    /\ UNCHANGED <<nMessages, nCards, embedding, batch_size, pc, batch,
                   stats, err, retryOf,
                   overlapped, overwrote, returned>>
    /\ UNCHANGED <<svars, tvars, gvars, mvars, kvars, cvars>>

\* The memory card stream's query returns no row: the pipeline returns stats.
Return(p) ==
    /\ pc[p] = "fetch"
    /\ kind[p] = "memory_card"
    /\ {} \in LimitOffset(Unembedded(embedding, "memory_card", Model), batch_size, offset[p])
    /\ pc' = [pc EXCEPT ![p] = "done"]
    /\ kind' = [kind EXCEPT ![p] = "message"]
    /\ offset' = [offset EXCEPT ![p] = 0]
    /\ returned' = returned + 1
    /\ UNCHANGED <<nMessages, nCards, embedding, batch_size, batch,
                   stats, err, retryOf,
                   overlapped, overwrote>>
    /\ UNCHANGED <<svars, tvars, gvars, mvars, kvars, cvars>>

\* A pass of the loop body that stores nothing and leaves the stream where
\* it was.
RequeueBatch(p) ==
    /\ pc[p] = "batch"
    /\ batch' = [batch EXCEPT ![p] = {}]
    /\ pc' = [pc EXCEPT ![p] = "fetch"]
    /\ UNCHANGED <<nMessages, nCards, embedding, batch_size, kind, offset,
                   stats, err, retryOf, overlapped, overwrote, returned>>
    /\ UNCHANGED <<svars, tvars, gvars, mvars, kvars, cvars>>

\* One pass of the loop body: generate_embeddings_batch returns one result per
\* job, bulk_upsert_embeddings executes and commits, the count is added to
\* stats, the batch is dropped and the stream advances its offset.
ProcessBatch(p) ==
    /\ pc[p] = "batch"
    /\ LET results == GenerateEmbeddingsBatch(kind[p], batch[p])
       IN  /\ embedding' = BulkUpsert(embedding, results)
           /\ overwrote' = (overwrote \/ \E res \in results :
                               \E r \in embedding : ConflictKey(r) = ConflictKey(res))
           /\ stats' = [stats EXCEPT ![p] =
                          IF kind[p] = "message"
                          THEN [@ EXCEPT !.messages = @ + Cardinality(results)]
                          ELSE [@ EXCEPT !.memory_cards = @ + Cardinality(results)]]
    /\ offset' = [offset EXCEPT ![p] = @ + batch_size]
    /\ batch' = [batch EXCEPT ![p] = {}]
    /\ pc' = [pc EXCEPT ![p] = "fetch"]
    /\ UNCHANGED <<nMessages, nCards, batch_size, kind, err,
                   retryOf, overlapped, returned>>
    /\ UNCHANGED <<svars, tvars, gvars, mvars, kvars, cvars>>

\* The embed call of one job raises: generate_embeddings_batch logs and
\* re-raises, and so does process_embedding_pipeline.
GenerateFails(p) ==
    /\ pc[p] = "batch"
    /\ err' = [err EXCEPT ![p] = "embed"]
    /\ pc' = [pc EXCEPT ![p] = "raised"]
    /\ offset' = [offset EXCEPT ![p] = 0]
    /\ stats' = [stats EXCEPT ![p] = [messages |-> 0, memory_cards |-> 0]]
    /\ UNCHANGED <<nMessages, nCards, embedding, batch_size, kind, batch,
                   retryOf, overlapped, overwrote, returned>>
    /\ UNCHANGED <<svars, tvars, gvars, mvars, kvars, cvars>>

\* The statement or the commit of bulk_upsert_embeddings raises: rollback,
\* log, re-raise; process_embedding_pipeline re-raises.
UpsertFails(p) ==
    /\ pc[p] = "batch"
    /\ err' = [err EXCEPT ![p] = "upsert"]
    /\ pc' = [pc EXCEPT ![p] = "raised"]
    /\ offset' = [offset EXCEPT ![p] = 0]
    /\ stats' = [stats EXCEPT ![p] = [messages |-> 0, memory_cards |-> 0]]
    /\ UNCHANGED <<nMessages, nCards, embedding, batch_size, kind, batch,
                   retryOf, overlapped, overwrote, returned>>
    /\ UNCHANGED <<svars, tvars, gvars, mvars, kvars, cvars>>

PNext ==
    \E p \in Pipelines :
        \/ Start(p)
        \/ FetchBatch(p)
        \/ EndOfMessages(p)
        \/ Return(p)
        \/ ProcessBatch(p)
        \/ GenerateFails(p)
        \/ UpsertFails(p)

(***************************************************************************)
(* Hybrid search.  Scores are in hundredths (1.0 is 100), weights in       *)
(* tenths (0.4 is 4), fused scores in thousandths.                         *)
(***************************************************************************)
\* Item ids; messages and memory cards are keyed independently.
Ids == {1, 2}

\* Raw scores a text ranking gives a row.
Scores == {0, 50, 100}

\* Distances e.vector <#> :qvec of stored vectors from the query vector.
Distances == {-50, 0, 100}

\* 1 - (e.vector <#> :qvec) AS score
SemScore(d) == 100 - d

\* Query strings, as character sequences: empty, blank, and a word.
Queries == {<<>>, <<" ">>, <<"p", "y">>}

\* Values of the k / limit field of a request.
Ks == {-1, 0, 2, 51, 101}

\* Values of the <<lexical weight, vector weight>> fields of a request.
Weights == {<<4, 6>>, <<0, 10>>, <<10, 10>>}

\* Sets of memory cards deleted after they were embedded.
DeletedChoices == {{}, {1}}

HitRows == [id : Ids, kind : Kinds, score : Scores]

\* Rows of the second ranking: scored by the vector query.
SemRows == [id : Ids, kind : Kinds, score : {SemScore(d) : d \in Distances}]

\* Result lists of n rows: best first, one row per (id, kind).
Rankings(rows, n) ==
    {s \in [1..n -> rows] :
        \A i, j \in 1..n :
            i < j => /\ s[i].score >= s[j].score
                     /\ <<s[i].id, s[i].kind>> # <<s[j].id, s[j].kind>>}

\* str.strip() on a query string.
RECURSIVE Strip(_)
Strip(q) ==
    IF q = <<>> THEN q
    ELSE IF Head(q) = " " THEN Strip(Tail(q))
    ELSE IF q[Len(q)] = " " THEN Strip(SubSeq(q, 1, Len(q) - 1))
    ELSE q

\* A test that only refuses the empty string.
NotGiven(q) == q = <<>>

\* `not q.strip()`
Blank(q) == Strip(q) = <<>>

\* s[:n] for n >= 0
Take(s, n) == SubSeq(s, 1, Min(n, Len(s)))

IsMessage(r) == r.kind = "message"
IsCard(r) == r.kind = "memory_card"

\* A sort step that is not stable: e goes before the elements that tie with it.
InsertBeforeTies(sorted, e) ==
    LET p == Cardinality({i \in 1..Len(sorted) : sorted[i].score > e.score})
    IN SubSeq(sorted, 1, p) \o <<e>> \o SubSeq(sorted, p + 1, Len(sorted))

\* One step of the stable descending sort: e goes after every element whose
\* score is at least its own.
InsertDesc(sorted, e) ==
    LET p == Cardinality({i \in 1..Len(sorted) : sorted[i].score >= e.score})
    IN SubSeq(sorted, 1, p) \o <<e>> \o SubSeq(sorted, p + 1, Len(sorted))

\* list.sort(key=score, reverse=True) / sorted(..., reverse=True): stable.
RECURSIVE SortDesc(_)
SortDesc(s) ==
    IF s = <<>> THEN <<>>
    ELSE InsertDesc(SortDesc(SubSeq(s, 1, Len(s) - 1)), s[Len(s)])

NoResp ==
    [impl |-> "none", status |-> "pending", k |-> 0, w_lex |-> 0, w_sem |-> 0,
     lex |-> <<>>, vec |-> <<>>, fused |-> <<>>, contexts |-> <<>>, ran |-> {}]

\* A response that carries an error and no result list; ran names the
\* sub-operations that were started before the error.
ErrorResp(impl, status, ran) ==
    [NoResp EXCEPT !.impl = impl, !.status = status, !.ran = ran]

\* The rankings that can be made to raise.
Paths == {"lexical", "vector"}

SInit ==
    /\ req \in [q : Queries, k : Ks, w : Weights]
    /\ lexHits \in UNION {Rankings(HitRows, n) : n \in 0..MaxHits}
    /\ vecHits \in UNION {Rankings(SemRows, n) : n \in 0..(MaxHits - Len(lexHits))}
    /\ deleted \in DeletedChoices
    /\ fail \in SUBSET Paths
    \* a deleted card is one that is still among the rows of the second ranking
    /\ \A c \in deleted : \E i \in 1..Len(vecHits) : vecHits[i].id = c /\ IsCard(vecHits[i])
    \* a ranking that raises delivers no rows
    /\ "lexical" \in fail => lexHits = <<>>
    /\ "vector" \in fail => vecHits = <<>>
    \* a blank query is refused before any ranking runs: no rows are drawn for it
    /\ Blank(req.q) => lexHits = <<>> /\ vecHits = <<>> /\ fail = {}
    /\ resp = NoResp

(***************************************************************************)
(* scaffold-v0.10 access/routers/query.py: POST /search                    *)
(***************************************************************************)
DefaultK == 20
DefaultWSem == 6
DefaultWLex == 4
MaxK == 100

\* python `v or d` on a number: 0 is falsy.
OrDefault(v, d) == IF v = 0 THEN d ELSE v

\* if k < 1: k = 1 / if k > 100: k = 100
ClampK(k) == IF k < 1 THEN 1 ELSE IF k > MaxK THEN MaxK ELSE k

\* A divisor that ignores the ranks of the result set.
UnitRank(rows) == 100

\* max((r.rank for r in lex_rows), default=1.0) or 1.0
MaxRank(rows) ==
    LET ranks == {rows[i].score : i \in 1..Len(rows)}
    IN IF ranks = {} THEN 100
       ELSE OrDefault(CHOOSE m \in ranks : \A r \in ranks : r <= m, 100)

\* messages: score_lex = rank / max_rank
NormalizeLex(rows) ==
    [i \in 1..Len(rows) |->
        [rows[i] EXCEPT !.score = (rows[i].score * 100) \div MaxRank(rows)]]

\* A filter that keeps every semantic row.
AnyCard(r) == TRUE

\* cards: the semantic rows whose memory card still exists
ExistingCard(r) == r.id \notin deleted

\* fused: the messages, then the cards, each with its weighted score
Fuse(messages, cards, w_lex, w_sem) ==
    [i \in 1..Len(messages) |-> [messages[i] EXCEPT !.score = w_lex * @]]
    \o [i \in 1..Len(cards) |-> [cards[i] EXCEPT !.score = w_sem * @]]

\* Neither query is wrapped in a try: an exception of the lexical query ends
\* the handler before the embedding and the vector query, an exception of the
\* vector query ends it after them.
QueryResponse(r, lexAll, semAll, f) ==
    LET k == ClampK(OrDefault(r.k, DefaultK))
        w_sem == OrDefault(r.w[2], DefaultWSem)
        w_lex == OrDefault(r.w[1], DefaultWLex)
        lex_rows == Take(SelectSeq(lexAll, IsMessage), k)
        sem_rows == Take(SelectSeq(semAll, IsCard), k)
        messages == NormalizeLex(lex_rows)
        cards == SelectSeq(sem_rows, ExistingCard)
        fused == Fuse(messages, cards, w_lex, w_sem)
    IN IF Blank(r.q) THEN ErrorResp("query", "400", {})
       ELSE IF "lexical" \in f THEN ErrorResp("query", "500", {"lexical"})
       ELSE IF "vector" \in f
       THEN ErrorResp("query", "500", {"lexical", "embed", "vector"})
       ELSE [impl |-> "query", status |-> "ok", k |-> k,
             w_lex |-> w_lex, w_sem |-> w_sem,
             lex |-> messages, vec |-> cards, fused |-> fused,
             contexts |-> Take(SortDesc(fused), k),
             ran |-> {"lexical", "embed", "vector"}]

QueryHybridSearch ==
    /\ resp = NoResp
    /\ resp' = QueryResponse(req, lexHits, vecHits, fail)
    /\ UNCHANGED <<req, lexHits, vecHits, deleted, fail>>
    /\ UNCHANGED <<pvars, tvars, gvars, mvars, kvars, cvars>>

(***************************************************************************)
(* src/src access/routers/search.py: POST /search/hybrid                   *)
(***************************************************************************)
MaxLimit == 100
MaxWeight == 10
SimilarityThreshold == 50

\* Field(ge=1, le=100) on limit
LimitOk(limit) == limit >= 1 /\ limit <= MaxLimit

\* Field(ge=0.0, le=1.0) / validate_float(min_value=0.0, max_value=1.0)
WeightOk(w) == w >= 0 /\ w <= MaxWeight

\* abs(text_weight + vector_weight - 1.0) > 0.01 is refused
WeightsSumOk(tw, vw) == tw + vw = 10

\* text_search: the matching rows sorted by score, results[:limit]
TextSearch(hits, limit) == Take(hits, limit)

AboveThreshold(r) == r.score >= SimilarityThreshold

\* vector_search: the text search again, filtered by the similarity threshold
VectorSearch(hits, limit) == SelectSeq(TextSearch(hits, limit), AboveThreshold)

\* Position of the id among the keys of combined_results, 0 when absent.
KeyIndex(comb, id) ==
    IF \E i \in 1..Len(comb) : comb[i].id = id
    THEN CHOOSE i \in 1..Len(comb) : comb[i].id = id
    ELSE 0

\* result.score *= text_weight; combined_results[result.id] = result
RECURSIVE AddText(_, _, _)
AddText(comb, results, tw) ==
    IF results = <<>> THEN comb
    ELSE LET e == [Head(results) EXCEPT !.score = tw * @]
             i == KeyIndex(comb, e.id)
         IN AddText(IF i = 0 THEN Append(comb, e) ELSE [comb EXCEPT ![i] = e],
                    Tail(results), tw)

\* result.score *= vector_weight; add to the entry of the id, or insert
RECURSIVE AddVector(_, _, _)
AddVector(comb, results, vw) ==
    IF results = <<>> THEN comb
    ELSE LET e == [Head(results) EXCEPT !.score = vw * @]
             i == KeyIndex(comb, e.id)
         IN AddVector(IF i = 0 THEN Append(comb, e)
                      ELSE [comb EXCEPT ![i].score = @ + e.score],
                      Tail(results), vw)

\* The rows a text search can score: min(score / 10.0, 1.0) of a count.
TextScored(hits) == \A i \in 1..Len(hits) : hits[i].score \in 0..100

\* text_search and vector_search return the error response of
\* handle_api_errors instead of raising; reading .results of it raises inside
\* the try block, after both searches were called.
SearchResponse(r, textAll, vectorAll, f) ==
    LET limit == r.k
        text_weight == r.w[1]
        vector_weight == r.w[2]
        text_results == TextSearch(textAll, limit * 2)
        vector_results == VectorSearch(vectorAll, limit * 2)
        combined == AddVector(AddText(<<>>, text_results, text_weight),
                              vector_results, vector_weight)
    IN IF ~(LimitOk(limit) /\ WeightOk(text_weight) /\ WeightOk(vector_weight))
       THEN ErrorResp("search", "422", {})
       ELSE IF Blank(r.q) \/ ~WeightsSumOk(text_weight, vector_weight)
       THEN ErrorResp("search", "400", {})
       ELSE IF ~LimitOk(limit * 2)
       THEN ErrorResp("search", "502", {})
       ELSE IF f # {}
       THEN ErrorResp("search", "502", {"lexical", "vector"})
       ELSE [impl |-> "search", status |-> "ok", k |-> limit,
             w_lex |-> text_weight, w_sem |-> vector_weight,
             lex |-> text_results, vec |-> vector_results, fused |-> combined,
             contexts |-> Take(SortDesc(combined), limit),
             ran |-> {"lexical", "vector"}]

SearchHybridSearch ==
    /\ resp = NoResp
    /\ TextScored(vecHits)
    /\ resp' = SearchResponse(req, lexHits, vecHits, fail)
    /\ UNCHANGED <<req, lexHits, vecHits, deleted, fail>>
    /\ UNCHANGED <<pvars, tvars, gvars, mvars, kvars, cvars>>

SNext == QueryHybridSearch \/ SearchHybridSearch

(***************************************************************************)
(* scaffold-v0.10 access/routers/query.py: POST /query/stitched            *)
(***************************************************************************)
\* Ids of the messages in the store, their threads and their created_at.
Stored == {1, 2, 3}
Threads == {"a", "b"}
Timestamps == {1, 2, 3}

\* Items deleted after the search read them and before the stitcher fetches.
GoneChoices == {{}, {<<"message", 1>>}, {<<"memory_card", 1>>}}

\* Values of the k field of a stitched request.
StitchKs == {0, 2}

RagDefaultK == 8

\* Rows of the lexical query: matching messages with a positive rank.
MsgRankings(n) ==
    {s \in Rankings(HitRows, n) :
        \A i \in 1..n : IsMessage(s[i]) /\ s[i].score > 0}

\* Rows of the vector query: one per embedding record of a memory card, the
\* nearest first; a card embedded under two models has two rows.
CardRankings(n) ==
    {s \in [1..n -> {r \in SemRows : IsCard(r) /\ r.score <= 100}] :
        \A i, j \in 1..n : i < j => s[i].score >= s[j].score}

\* A set that never reports an id as seen.
NotSeen(seen, id) == FALSE

\* `cid in seen_card_ids` / `mid in seen_msg_ids`
Seen(seen, id) == id \in seen

\* _fetch_message / session.get: the row, unless it is gone.
Alive(kd, id) ==
    /\ <<kd, id>> \notin gone
    /\ kd = "memory_card" => id \notin deleted

\* The latest message created strictly earlier, whatever its thread.
EarlierAnywhere(m) ==
    LET early == {n \in Stored : /\ Alive("message", n)
                                 /\ createdAt[n] < createdAt[m]}
        latest == {n \in early : \A o \in early : createdAt[o] <= createdAt[n]}
    IN IF latest = {} THEN {0} ELSE latest

\* _neighbors, prev: the latest message of the thread created strictly
\* earlier; LIMIT 1 picks any of the latest when several share created_at.
PrevChoices(m) ==
    LET early == {n \in Stored : /\ Alive("message", n)
                                 /\ threadOf[n] = threadOf[m]
                                 /\ createdAt[n] < createdAt[m]}
        latest == {n \in early : \A o \in early : createdAt[o] <= createdAt[n]}
    IN IF latest = {} THEN {0} ELSE latest

\* _neighbors, nxt: the earliest message of the thread created strictly later.
NextChoices(m) ==
    LET late == {n \in Stored : /\ Alive("message", n)
                                /\ threadOf[n] = threadOf[m]
                                /\ createdAt[n] > createdAt[m]}
        earliest == {n \in late : \A o \in late : createdAt[n] <= createdAt[o]}
    IN IF earliest = {} THEN {0} ELSE earliest

\* The answers the two neighbour queries can give for every stored message.
PrevFns ==
    {f \in [Stored -> UNION {PrevChoices(m) : m \in Stored}] :
        \A m \in Stored : f[m] \in PrevChoices(m)}

NextFns ==
    {f \in [Stored -> UNION {NextChoices(m) : m \in Stored}] :
        \A m \in Stored : f[m] \in NextChoices(m)}

NotNone(m) == m # 0

\* msgs = [m for m in [prev, msg, nxt] if m is not None]
Window(m, pv, nx) == SelectSeq(<<pv[m], m, nx[m]>>, NotNone)

\* The loop over the contexts: builds card_blocks and thread_blocks.
RECURSIVE StitchBlocks(_, _, _, _, _, _, _)
StitchBlocks(ctxs, seenC, seenM, cb, tb, pv, nx) ==
    IF ctxs = <<>> THEN [card_blocks |-> cb, thread_blocks |-> tb]
    ELSE LET item == Head(ctxs)
             rest == Tail(ctxs)
         IN IF item.kind = "memory_card"
            THEN IF Seen(seenC, item.id)
                 THEN StitchBlocks(rest, seenC, seenM, cb, tb, pv, nx)
                 ELSE StitchBlocks(rest, seenC \cup {item.id}, seenM,
                                   IF Alive("memory_card", item.id)
                                   THEN Append(cb, item.id) ELSE cb,
                                   tb, pv, nx)
            ELSE IF Seen(seenM, item.id)
                 THEN StitchBlocks(rest, seenC, seenM, cb, tb, pv, nx)
                 ELSE StitchBlocks(rest, seenC, seenM \cup {item.id}, cb,
                                   IF Alive("message", item.id)
                                   THEN Append(tb, [tid |-> threadOf[item.id],
                                                    msgs |-> Window(item.id, pv, nx),
                                                    mid |-> item.id])
                                   ELSE tb,
                                   pv, nx)

\* The citations of the thread blocks: one per message of each window.
RECURSIVE ThreadCitations(_)
ThreadCitations(tb) ==
    IF tb = <<>> THEN <<>>
    ELSE [i \in 1..Len(Head(tb).msgs) |->
             [type |-> "message", id |-> Head(tb).msgs[i]]]
         \o ThreadCitations(Tail(tb))

\* _format_prompt, citations: the cards, then the messages of the windows.
Citations(cb, tb) ==
    [i \in 1..Len(cb) |-> [type |-> "memory_card", id |-> cb[i]]]
    \o ThreadCitations(tb)

\* _format_prompt, prompt: a tagged block per card, a tagged block per
\* window, then the query line.
Prompt(q, cb, tb) ==
    [i \in 1..Len(cb) |-> <<"memory_card", cb[i]>>]
    \o [i \in 1..Len(tb) |-> <<"thread", tb[i].tid>>]
    \o << <<"USER QUERY", q>> >>

NoStitch ==
    [status |-> "pending", search |-> NoResp, card_blocks |-> <<>>,
     thread_blocks |-> <<>>, citations |-> <<>>, prompt |-> <<>>]

StitchResponse(r, lexAll, semAll, f, pv, nx) ==
    LET k == OrDefault(r.k, RagDefaultK)
        w_sem == OrDefault(r.w[2], DefaultWSem)
        w_lex == OrDefault(r.w[1], DefaultWLex)
        res == QueryResponse([q |-> r.q, k |-> k, w |-> <<w_lex, w_sem>>],
                             lexAll, semAll, f)
        blocks == StitchBlocks(res.contexts, {}, {}, <<>>, <<>>, pv, nx)
    IN IF Blank(r.q) THEN [NoStitch EXCEPT !.status = "400"]
       ELSE IF res.status # "ok"
       THEN [NoStitch EXCEPT !.status = res.status, !.search = res]
       ELSE [status |-> "ok", search |-> res,
             card_blocks |-> blocks.card_blocks,
             thread_blocks |-> blocks.thread_blocks,
             citations |-> Citations(blocks.card_blocks, blocks.thread_blocks),
             prompt |-> Prompt(r.q, blocks.card_blocks, blocks.thread_blocks)]

QueryRagQuery ==
    /\ sresp = NoStitch
    /\ \E pv \in PrevFns : \E nx \in NextFns :
           sresp' = StitchResponse(req, lexHits, vecHits, fail, pv, nx)
    /\ UNCHANGED <<threadOf, createdAt, gone>>
    /\ UNCHANGED <<pvars, svars, gvars, mvars, kvars, cvars>>

TInit ==
    /\ req \in [q : Queries, k : StitchKs, w : {<<DefaultWLex, DefaultWSem>>}]
    /\ lexHits \in UNION {MsgRankings(n) : n \in 0..MaxHits}
    /\ vecHits \in UNION {CardRankings(n) : n \in 0..(MaxHits - Len(lexHits))}
    /\ deleted \in DeletedChoices
    /\ fail \in SUBSET Paths
    /\ gone \in GoneChoices
    /\ threadOf \in {t \in [Stored -> Threads] : t[1] = "a"}
    \* the instants are taken relative to that of message 2
    /\ createdAt \in {c \in [Stored -> Timestamps] : c[2] = 2}
    /\ \A c \in deleted : \E i \in 1..Len(vecHits) : vecHits[i].id = c
    \* what is gone was read by the search before it went
    /\ \A g \in gone :
           \/ \E i \in 1..Len(lexHits) : <<lexHits[i].kind, lexHits[i].id>> = g
           \/ \E i \in 1..Len(vecHits) : <<vecHits[i].kind, vecHits[i].id>> = g
    /\ \A g \in gone : g[1] = "memory_card" => g[2] \notin deleted
    /\ "lexical" \in fail => lexHits = <<>>
    /\ "vector" \in fail => vecHits = <<>>
    /\ Blank(req.q) => lexHits = <<>> /\ vecHits = <<>> /\ fail = {}
    /\ resp = NoResp
    /\ sresp = NoStitch

TQuiet ==
    /\ gone = {}
    /\ threadOf = [m \in Stored |-> "a"]
    /\ createdAt = [m \in Stored |-> 1]
    /\ sresp = NoStitch

(***************************************************************************)
(* src/src access/routers/search.py: POST /rag                             *)
(***************************************************************************)
\* Ids of the messages the message query can return.
RagIds == 1..MaxRagHits

\* Values of max_context_tokens, max_results and len(message.content).
Budgets == {50, 500, 8000}
ResultLimits == {0, 1, 50}
Lengths == {240, 2004}

Roles == {"user", "assistant"}

\* The previous / next message of the thread: none, or its role and length.
NeighbourChoices == {[role |-> "none", len |-> 0], [role |-> "assistant", len |-> 300]}

MinContextTokens == 500
MaxContextTokens == 8000
MaxResults == 50
PreviewChars == 200

RagRows ==
    [id : RagIds, len : Lengths, role : Roles,
     prev : NeighbourChoices, next : NeighbourChoices]

\* message_query.limit(n).all(): rows of distinct messages, in any order.
RagResults(n) ==
    {s \in [1..n -> RagRows] : \A i, j \in 1..n : i < j => s[i].id # s[j].id}

\* len(message.role)
RoleLen(role) == IF role = "user" THEN 4 ELSE 9

\* len(f"[Previous] {role}: {content[:200]}...")
PreviousLine(nb) == 11 + RoleLen(nb.role) + 2 + Min(nb.len, PreviewChars) + 3

\* len(f"[Current] {role}: {content}")
CurrentLine(m) == 10 + RoleLen(m.role) + 2 + m.len

\* len(f"[Next] {role}: {content[:200]}...")
NextLine(nb) == 7 + RoleLen(nb.role) + 2 + Min(nb.len, PreviewChars) + 3

\* len(content): the message content, or the parts joined by "\n".
ContentLen(m, include) ==
    IF ~include THEN m.len
    ELSE (IF m.prev.role # "none" THEN PreviousLine(m.prev) + 1 ELSE 0)
         + CurrentLine(m)
         + (IF m.next.role # "none" THEN 1 + NextLine(m.next) ELSE 0)

\* An estimate of half the size.
EighthOfLength(len) == len \div 8

\* estimated_tokens = len(content) // 4
EstimatedTokens(len) == len \div 4

\* The loop over the messages: stops at the first context that does not fit.
RECURSIVE BuildContexts(_, _, _, _, _)
BuildContexts(msgs, include, budget, contexts, total) ==
    IF msgs = <<>> THEN [contexts |-> contexts, total_tokens |-> total]
    ELSE LET m == Head(msgs)
             len == ContentLen(m, include)
             estimated_tokens == EstimatedTokens(len)
         IN IF total + estimated_tokens > budget
            THEN [contexts |-> contexts, total_tokens |-> total]
            ELSE BuildContexts(Tail(msgs), include, budget,
                               Append(contexts, [source_id |-> m.id,
                                                 source_type |-> "message",
                                                 len |-> len]),
                               total + estimated_tokens)

\* What can raise inside the try block: the summarize call of the client.
RagFailures == {"none", "llm"}

\* str(e) of the exception raised by f.
ExceptionText(f) ==
    IF f = "llm" THEN "summarize: connection refused" ELSE ""

\* error_code of the APIError classes.
ErrorCodes ==
    {"GENERIC_ERROR", "VALIDATION_ERROR", "AUTHENTICATION_ERROR",
     "AUTHORIZATION_ERROR", "NOT_FOUND", "RATE_LIMIT_EXCEEDED",
     "DATABASE_ERROR", "EXTERNAL_SERVICE_ERROR", "INTERNAL_ERROR"}

NoError == [code |-> "none", message |-> <<>>]

\* APIError.to_dict: the code and the message, a text given by its parts.
ApiError(code, message) == [code |-> code, message |-> message]

\* ValidationError(message)
ValidationError(message) == ApiError("VALIDATION_ERROR", message)

\* ExternalServiceError(service, message): message=f"{service} error: {message}"
ExternalServiceError(service, message) ==
    ApiError("EXTERNAL_SERVICE_ERROR", <<service, " error: ">> \o message)

\* The answer of the framework to a body that fails the Field constraints: a
\* detail list whose entries carry a type and a msg.
RequestValidationError ==
    [code |-> "request_validation", message |-> <<"Input should be in range">>]

\* `except Exception as e: raise ExternalServiceError("llm_service", ...)`
RagFailedError(f) ==
    ExternalServiceError("llm_service",
                         <<"RAG query operation failed: ", ExceptionText(f)>>)

NoRag ==
    [status |-> "pending", contexts |-> <<>>, total_context_tokens |-> 0,
     sources_count |-> 0, error |-> NoError]

\* Field(ge=500, le=8000) on max_context_tokens, Field(ge=1, le=50) on max_results
RagFieldsOk(r) ==
    /\ r.max_context_tokens >= MinContextTokens
    /\ r.max_context_tokens <= MaxContextTokens
    /\ r.max_results >= 1
    /\ r.max_results <= MaxResults

RagResponse(r, msgs, f) ==
    LET built == BuildContexts(msgs, r.include_conversation_context,
                               r.max_context_tokens, <<>>, 0)
    IN IF ~RagFieldsOk(r)
       THEN [NoRag EXCEPT !.status = "422", !.error = RequestValidationError]
       ELSE IF Blank(r.q)
       THEN [NoRag EXCEPT !.status = "400",
                          !.error = ValidationError(<<"search_query", " cannot be empty">>)]
       ELSE IF f # "none"
       THEN [NoRag EXCEPT !.status = "502", !.error = RagFailedError(f)]
       ELSE [status |-> "ok", contexts |-> built.contexts,
             total_context_tokens |-> built.total_tokens,
             sources_count |-> Len(built.contexts), error |-> NoError]

SearchRagQuery ==
    /\ ragResp = NoRag
    /\ ragResp' = RagResponse(ragReq, ragHits, ragFail)
    /\ UNCHANGED <<ragReq, ragHits, ragFail>>
    /\ UNCHANGED <<pvars, svars, tvars, mvars, kvars, cvars>>

RInit ==
    /\ ragReq \in [q : Queries, max_context_tokens : Budgets,
                   max_results : ResultLimits,
                   include_conversation_context : BOOLEAN]
    /\ ragHits \in UNION {RagResults(n) :
                             n \in 0..Min(MaxRagHits, ragReq.max_results)}
    \* a blank query is refused before the message query runs
    /\ Blank(ragReq.q) => ragHits = <<>>
    /\ ragFail \in RagFailures
    /\ ragResp = NoRag

RQuiet ==
    /\ ragReq = [q |-> <<>>, max_context_tokens |-> 0, max_results |-> 0,
                 include_conversation_context |-> FALSE]
    /\ ragHits = <<>>
    /\ ragFail = "none"
    /\ ragResp = NoRag

\* The handlers are observed one at a time: the state of the others is at rest.
SQuiet ==
    /\ req = [q |-> <<>>, k |-> 0, w |-> <<0, 0>>]
    /\ lexHits = <<>>
    /\ vecHits = <<>>
    /\ deleted = {}
    /\ fail = {}
    /\ resp = NoResp

\* No process_embedding_pipeline call is under way.
PIdle ==
    /\ batch_size = 1
    /\ pc = [p \in Pipelines |-> "idle"]
    /\ kind = [p \in Pipelines |-> "message"]
    /\ offset = [p \in Pipelines |-> 0]
    /\ batch = [p \in Pipelines |-> {}]
    /\ stats = [p \in Pipelines |-> [messages |-> 0, memory_cards |-> 0]]
    /\ err = [p \in Pipelines |-> "none"]
    /\ retryOf = [p \in Pipelines |-> {}]
    /\ overlapped = FALSE
    /\ overwrote = FALSE
    /\ returned = 0

PQuiet ==
    /\ nMessages = 0
    /\ nCards = 0
    /\ embedding = {}
    /\ PIdle

(***************************************************************************)
(* src/src memory/embedding_manager.py: get_embedding_stats                *)
(***************************************************************************)
\* Values settings.embed_model has had: the rows of the table carry the model
\* of the pipeline that wrote them.
EmbedModels == {Model, "text-embedding-3-small"}

\* The row a pipeline configured with model m wrote for item i of kind k.
StoredRow(k, i, m) ==
    [id |-> <<<<k, i, m>>, 1>>, target_kind |-> k, target_id |-> i,
     model |-> m, dim |-> Dim, vector |-> Embed(Content(k, i))]

\* The rows the table can hold: at most one per (kind, id, model); a row whose
\* target id is above the stored ids of its kind outlived its deleted source.
StoredRows ==
    {StoredRow(k, i, m) : k \in Kinds, i \in 1..MaxStatIds, m \in EmbedModels}

\* select(func.count(X.id))
TotalOf(k) == Cardinality(Items(k))

\* select(func.count(Embedding.id)).where(Embedding.target_kind == k)
EmbeddedOf(k) == Cardinality({r \in embedding : r.target_kind = k})

\* round(embedded / total * 100, 2) if total > 0 else 0, in hundredths of a
\* percent, rounded to the nearest.
CompletionPercent(embedded, total) ==
    IF total > 0 THEN (2 * embedded * 10000 + total) \div (2 * total) ELSE 0

KindStats(k) ==
    [total |-> TotalOf(k), embedded |-> EmbeddedOf(k),
     pending |-> TotalOf(k) - EmbeddedOf(k),
     completion_percent |-> CompletionPercent(EmbeddedOf(k), TotalOf(k))]

NoStats == [status |-> "pending"]

EmbeddingStats ==
    [status |-> "ok", messages |-> KindStats("message"),
     memory_cards |-> KindStats("memory_card"),
     total_embeddings |-> EmbeddedOf("message") + EmbeddedOf("memory_card")]

GetEmbeddingStats ==
    /\ mstats = NoStats
    /\ mstats' = EmbeddingStats
    /\ UNCHANGED <<pvars, svars, tvars, gvars, kvars, cvars>>

MInit ==
    /\ nMessages \in 0..MaxStatIds
    /\ nCards \in 0..MaxStatIds
    /\ embedding \in SUBSET StoredRows
    /\ PIdle
    /\ mstats = NoStats

MQuiet == mstats = NoStats

(***************************************************************************)
(* src/claude_parser_complete.py: ClaudeParser                             *)
(***************************************************************************)
\* InputValidator.ALLOWED_ROLES
ALLOWED_ROLES == {"user", "assistant", "system"}

\* Messages of an export, by the fields parse_export reads; the content is
\* given as sanitize_content leaves it.
ExportMessages ==
    {[role |-> "user", content |-> "~~~py x~~~", id |-> "msg_001"],
     [role |-> "invalid_role", content |-> "text", id |-> "msg_002"],
     [role |-> "user", content |-> "", id |-> "msg_003"],
     [role |-> "assistant", content |-> "~~~py x~~~", id |-> ""]}

\* The export_data of a call: a string that is not JSON, or an object with a
\* list of messages.
Exports ==
    {[json |-> FALSE, messages |-> <<>>]}
    \cup {[json |-> TRUE, messages |-> ms] :
             ms \in UNION {[1..n -> ExportMessages] : n \in 0..MaxExportMessages}}

\* InputValidator.validate_message: role and content are present, the role is
\* an allowed one.
ValidateMessage(m) == m.role \in ALLOWED_ROLES

\* _extract_artifacts: the artifacts found in the content, here their number
\* (one per fenced code block with content).
ExtractArtifacts(content) == IF content = "~~~py x~~~" THEN 1 ELSE 0

\* ParsedMessage.__post_init__ raises for an empty id or an empty content.
PostInitOk(m) == m.id # "" /\ m.content # ""

\* The ParsedMessage built by _parse_message.
ParsedMessage(m) ==
    [id |-> m.id, role |-> m.role, content |-> m.content,
     artifacts |-> ExtractArtifacts(m.content)]

ZeroStats ==
    [messages_parsed |-> 0, artifacts_extracted |-> 0,
     errors_encountered |-> 0, warnings_generated |-> 0]

NoResult == [state |-> "none", data |-> <<>>, warnings |-> <<>>]

\* ParseResult.error_result
ErrorResult == [state |-> "error", data |-> <<>>, warnings |-> <<>>]

\* ParseResult.success_result(data), then result.warnings = warnings
SuccessResult(data, warnings) ==
    [state |-> "success", data |-> data, warnings |-> warnings]

\* The loop of parse_export over the messages, from message i on.
RECURSIVE ParseLoop(_, _, _, _, _, _)
ParseLoop(msgs, i, strict, st, data, warnings) ==
    IF i > Len(msgs)
    THEN [stats |-> st, result |-> SuccessResult(data, warnings)]
    ELSE IF ~ValidateMessage(msgs[i])
    THEN IF strict
         THEN [stats |-> [st EXCEPT !.errors_encountered = @ + 1],
               result |-> ErrorResult]
         ELSE ParseLoop(msgs, i + 1, strict,
                        [st EXCEPT !.warnings_generated = @ + 1],
                        data, Append(warnings, <<"validation", i>>))
    ELSE LET \* _parse_message: _extract_artifacts counts what it extracts,
             \* then the ParsedMessage is built
             found == [st EXCEPT !.artifacts_extracted =
                                     @ + ExtractArtifacts(msgs[i].content)]
         IN IF PostInitOk(msgs[i])
            THEN ParseLoop(msgs, i + 1, strict,
                           [found EXCEPT !.messages_parsed = @ + 1],
                           Append(data, ParsedMessage(msgs[i])), warnings)
            ELSE IF strict
            \* _parse_message raises ParseError, parse_export returns the error
            THEN [stats |-> [found EXCEPT !.errors_encountered = @ + 1],
                  result |-> ErrorResult]
            \* _parse_message returns None: nothing is appended
            ELSE ParseLoop(msgs, i + 1, strict, found, data, warnings)

\* parse_export(export_data)
ParseExportResult(e, strict, st) ==
    IF ~e.json
    THEN [stats |-> [st EXCEPT !.errors_encountered = @ + 1], result |-> ErrorResult]
    ELSE ParseLoop(e.messages, 1, strict, st, <<>>, <<>>)

RECURSIVE ArtifactsIn(_)
\* The artifacts attached to the messages of a list.
ArtifactsIn(data) ==
    IF data = <<>> THEN 0 ELSE Head(data).artifacts + ArtifactsIn(Tail(data))

ParseExport ==
    /\ calls < MaxParseCalls
    /\ \E e \in Exports :
          LET out == ParseExportResult(e, strict_mode, parser_stats)
          IN /\ export' = e
             /\ parser_stats' = out.stats
             /\ result' = out.result
             /\ delivered' = [messages |-> delivered.messages + Len(out.result.data),
                              artifacts |-> delivered.artifacts
                                               + ArtifactsIn(out.result.data)]
    /\ last_op' = "parse_export"
    /\ calls' = calls + 1
    /\ UNCHANGED strict_mode
    /\ UNCHANGED <<pvars, svars, tvars, gvars, mvars, cvars>>

\* reset_stats: every counter is set to 0.
ResetStats ==
    /\ last_op # "reset_stats"
    /\ parser_stats' = [k \in DOMAIN parser_stats |-> 0]
    /\ delivered' = [messages |-> 0, artifacts |-> 0]
    /\ last_op' = "reset_stats"
    /\ UNCHANGED <<strict_mode, export, result, calls>>
    /\ UNCHANGED <<pvars, svars, tvars, gvars, mvars, cvars>>

\* get_stats: a copy of the counters.
GetStats == parser_stats

\* ClaudeParser.__init__
KInit ==
    /\ strict_mode \in BOOLEAN
    /\ parser_stats = ZeroStats
    /\ export = [json |-> TRUE, messages |-> <<>>]
    /\ result = NoResult
    /\ delivered = [messages |-> 0, artifacts |-> 0]
    /\ last_op = "init"
    /\ calls = 0

KQuiet ==
    /\ strict_mode = TRUE
    /\ parser_stats = ZeroStats
    /\ export = [json |-> TRUE, messages |-> <<>>]
    /\ result = NoResult
    /\ delivered = [messages |-> 0, artifacts |-> 0]
    /\ last_op = "init"
    /\ calls = 0

(***************************************************************************)
(* query.py hybrid_search and rag_query, search.py rag_query: the          *)
(* statements each call sends to the database, for clients that call the   *)
(* handlers at the same time, each on a session of its own                 *)
(***************************************************************************)
MaxReadIds == 1
MaxReaderCalls == 2

Readers == {"r1", "r2"}

Handlers == {"hybrid_search", "rag_query", "search_rag"}

\* The statements a call of handler h executes on its session, in order.
Statements(h) ==
    CASE h = "hybrid_search" -> <<"lexical", "semantic", "cards">>
      [] h = "rag_query" -> <<"lexical", "semantic", "cards",
                              "get_card", "fetch_message", "neighbors">>
      [] h = "search_rag" -> <<"messages", "neighbors">>

\* Every statement is a SELECT: the table it reads, and the rows of that
\* table it ranges over.
Scanned(stmt) ==
    CASE stmt \in {"lexical", "fetch_message", "neighbors", "messages"} ->
             {<<"message", i>> : i \in Items("message")}
      [] stmt = "semantic" ->
             {<<"embedding", r.id>> :
                  r \in {e \in embedding : e.target_kind = "memory_card"}}
      [] stmt \in {"cards", "get_card"} ->
             {<<"memory_card", i>> : i \in Items("memory_card")}

InCall(c) == rpc[c] > 0

\* The request arrives: FastAPI hands the handler a session.
Call(c, h) ==
    /\ ~InCall(c)
    /\ rcalls[c] < MaxReaderCalls
    /\ rop' = [rop EXCEPT ![c] = h]
    /\ rpc' = [rpc EXCEPT ![c] = 1]
    /\ rrows' = [rrows EXCEPT ![c] = {}]
    /\ rconc' = (rconc \/ \E d \in Readers \ {c} : InCall(d))
    /\ UNCHANGED rcalls
    /\ UNCHANGED <<pvars, svars, tvars, gvars, mvars, kvars>>

\* A statement that also keeps what it computed, as a cache of query
\* embeddings held in mhe.embedding would.
ExecuteAndStore(c) ==
    /\ InCall(c)
    /\ rpc[c] <= Len(Statements(rop[c]))
    /\ rrows' = [rrows EXCEPT ![c] = @ \cup Scanned(Statements(rop[c])[rpc[c]])]
    /\ rpc' = [rpc EXCEPT ![c] = @ + 1]
    /\ embedding' = embedding \cup {StoredRow("memory_card", 1, Model)}
    /\ UNCHANGED <<nMessages, nCards, batch_size, pc, kind, offset, batch,
                   stats, err, retryOf, overlapped, overwrote, returned>>
    /\ UNCHANGED <<rop, rcalls, rconc>>
    /\ UNCHANGED <<svars, tvars, gvars, mvars, kvars>>

\* await session.execute(select ...) / session.get / session.query(...).all()
Execute(c) ==
    /\ InCall(c)
    /\ rpc[c] <= Len(Statements(rop[c]))
    /\ rrows' = [rrows EXCEPT ![c] = @ \cup Scanned(Statements(rop[c])[rpc[c]])]
    /\ rpc' = [rpc EXCEPT ![c] = @ + 1]
    /\ UNCHANGED <<rop, rcalls, rconc>>
    /\ UNCHANGED <<pvars, svars, tvars, gvars, mvars, kvars>>

\* The handler returns its response.
Respond(c) ==
    /\ InCall(c)
    /\ rpc[c] > Len(Statements(rop[c]))
    /\ rpc' = [rpc EXCEPT ![c] = 0]
    /\ rcalls' = [rcalls EXCEPT ![c] = @ + 1]
    /\ UNCHANGED <<rop, rrows, rconc>>
    /\ UNCHANGED <<pvars, svars, tvars, gvars, mvars, kvars>>

\* The rows mhe.embedding can hold when the calls start.
ReadableRows ==
    {StoredRow(k, i, Model) : k \in Kinds, i \in 1..MaxReadIds}

CQuiet ==
    /\ rop = [c \in Readers |-> "hybrid_search"]
    /\ rpc = [c \in Readers |-> 0]
    /\ rrows = [c \in Readers |-> {}]
    /\ rcalls = [c \in Readers |-> 0]
    /\ rconc = FALSE

CInit ==
    /\ nMessages \in 0..MaxReadIds
    /\ nCards \in 0..MaxReadIds
    /\ embedding \in SUBSET ReadableRows
    /\ PIdle
    /\ CQuiet

Init == PInit /\ SQuiet /\ TQuiet /\ RQuiet /\ MQuiet /\ KQuiet /\ CQuiet

Next == PNext

Spec == Init /\ [][Next]_vars

\* The steps process_embedding_pipeline takes by itself once it was called.
PipelineStep(p) ==
    \/ FetchBatch(p)
    \/ EndOfMessages(p)
    \/ Return(p)
    \/ ProcessBatch(p)
    \/ GenerateFails(p)
    \/ UpsertFails(p)

SearchInit == SInit /\ PQuiet /\ TQuiet /\ RQuiet /\ MQuiet /\ KQuiet /\ CQuiet

SearchNext == SNext

SpecSearch == SearchInit /\ [][SearchNext]_vars

StitchInit == TInit /\ PQuiet /\ RQuiet /\ MQuiet /\ KQuiet /\ CQuiet

StitchNext == QueryRagQuery

SpecStitch == StitchInit /\ [][StitchNext]_vars

RagInit == RInit /\ PQuiet /\ SQuiet /\ TQuiet /\ MQuiet /\ KQuiet /\ CQuiet

RagNext == SearchRagQuery

SpecRag == RagInit /\ [][RagNext]_vars

StatsInit == MInit /\ SQuiet /\ TQuiet /\ RQuiet /\ KQuiet /\ CQuiet

StatsNext == GetEmbeddingStats

SpecStats == StatsInit /\ [][StatsNext]_vars

ParserInit == KInit /\ PQuiet /\ SQuiet /\ TQuiet /\ RQuiet /\ MQuiet /\ CQuiet

ParserNext == ParseExport \/ ResetStats

SpecParser == ParserInit /\ [][ParserNext]_vars

ReadersInit == CInit /\ SQuiet /\ TQuiet /\ RQuiet /\ MQuiet /\ KQuiet

ReadersNext ==
    \E c \in Readers :
        \/ \E h \in Handlers : Call(c, h)
        \/ Execute(c)
        \/ Respond(c)

SpecReaders == ReadersInit /\ [][ReadersNext]_vars

(***************************************************************************)
(* Claims about the embedding pipeline.                                    *)
(***************************************************************************)
HasRecord(k, i) == RowsFor(embedding, k, i, Model) # {}

Idle == \A p \in Pipelines : ~Active(p)

\* C1: under any interleaving of invocations the table holds at most one row
\* per (target_kind, target_id, model), and no invocation ends with a
\* duplicate-key error.
C1_OneRowPerTriple ==
    /\ \A r1, r2 \in embedding : ConflictKey(r1) = ConflictKey(r2) => r1 = r2
    /\ \A p \in Pipelines : err[p] # "duplicate_key"

\* C1 witness: two invocations overlapped, one of them upserted a record the
\* other had already written, and both have ended.
C1_Witness == overwrote /\ overlapped /\ Idle /\ returned = 2

\* C2: when an invocation that ran alone returns normally, no message and no
\* memory card is left without a record for the pipeline's model.
C2_NothingLeftUnembedded ==
    \A p \in Pipelines :
        (pc[p] = "done" /\ ~overlapped) =>
            \A k \in Kinds : Unembedded(embedding, k, Model) = {}

\* C3: after two invocations in a row that both returned normally, every
\* item has exactly one record, holding the vector the client computes for it.
C3_TwoRunsOneRecordEach ==
    (returned = 2 /\ ~overlapped) =>
        \A k \in Kinds : \A i \in Items(k) :
            /\ Cardinality(RowsFor(embedding, k, i, Model)) = 1
            /\ \A r \in RowsFor(embedding, k, i, Model) :
                  r.vector = Embed(Content(k, i))

\* C4: when the embed call of one job of a batch fails, the invocation is not
\* aborted and at most that one job of the batch is left without a record.
C4_EmbedFailureSkipsOneJob ==
    \A p \in Pipelines :
        err[p] = "embed" =>
            /\ pc[p] # "raised"
            /\ \E j \in batch[p] : \A i \in batch[p] \ {j} : HasRecord(kind[p], i)

\* C5: a failed upsert persists nothing of its batch (with no other writer,
\* its jobs have no record after the failure), and the next invocation, once
\* it has returned, has embedded the jobs of that batch.
C5_NextRunEmbedsFailedBatch ==
    \A p \in Pipelines :
        /\ (pc[p] = "raised" /\ err[p] = "upsert"
                /\ \A q \in Pipelines \ {p} : pc[q] = "idle") =>
               \A i \in batch[p] : ~HasRecord(kind[p], i)
        /\ pc[p] = "done" => \A j \in retryOf[p] : HasRecord(j[1], j[2])

(***************************************************************************)
(* Claims about hybrid search.                                             *)
(***************************************************************************)
Answered == resp.status = "ok"

Handled == resp.status # "pending"

\* The (id, kind) candidates of a ranking.
Candidates(rank) == {<<rank[i].id, rank[i].kind>> : i \in 1..Len(rank)}

\* The score a ranking gives a candidate, 0 when the candidate is not in it.
ScoreIn(rank, c) ==
    LET hit == {i \in 1..Len(rank) : <<rank[i].id, rank[i].kind>> = c}
    IN IF hit = {} THEN 0 ELSE rank[CHOOSE i \in hit : TRUE].score

\* The entries of the fused list that stand for a candidate.
EntriesOf(fused, c) ==
    {i \in 1..Len(fused) : <<fused[i].id, fused[i].kind>> = c}

\* Insertion position of an entry in the fused list.
Pos(e) == CHOOSE i \in 1..Len(resp.fused) : resp.fused[i] = e

\* a ranks before b: higher fused score, or the same score and inserted earlier.
Before(a, b) == a.score > b.score \/ (a.score = b.score /\ Pos(a) < Pos(b))

WeightsSumToOne == req.w[1] + req.w[2] = 10

\* C6: in an answered search every candidate of either ranking, identified by
\* (id, kind), has exactly one entry in the fused list, and its fused score is
\* w_lexical * lexical score + w_vector * vector score with a missing score
\* counted as 0; candidates that share an id but differ in kind keep separate
\* entries.
C6_FusedScorePerCandidate ==
    Answered =>
        \A c \in Candidates(resp.lex) \cup Candidates(resp.vec) :
            /\ Cardinality(EntriesOf(resp.fused, c)) = 1
            /\ \A i \in EntriesOf(resp.fused, c) :
                   resp.fused[i].score = resp.w_lex * ScoreIn(resp.lex, c)
                                         + resp.w_sem * ScoreIn(resp.vec, c)

C8_WeightsAcceptedAsGiven ==
    (Handled /\ ~Blank(req.q) /\ req.w[1] >= 0 /\ req.w[2] >= 0) =>
        /\ resp.status # "400"
        /\ Answered => resp.w_lex = req.w[1] /\ resp.w_sem = req.w[2]

\* C9: a search with a non-blank query and weights that sum to one is answered
\* whatever k it carries, and runs with k clamped into 1..100: a k below 1 as
\* 1, a k above 100 as 100, any other k unchanged.
C9_KClampedNeverRejected ==
    (Handled /\ ~Blank(req.q) /\ WeightsSumToOne) =>
        /\ Answered
        /\ resp.k = IF req.k < 1 THEN 1 ELSE IF req.k > 100 THEN 100 ELSE req.k

\* C10: a search with a non-blank query, k within 1..100 and weights within
\* 0..1 that sum to one returns a list of contexts, not an error.
C10_InRangeSearchAnswered ==
    (Handled /\ ~Blank(req.q) /\ req.k \in 1..100 /\ WeightsSumToOne
        /\ req.w[1] \in 0..10 /\ req.w[2] \in 0..10) => Answered

AllSpaces(q) == \A i \in 1..Len(q) : q[i] = " "

\* C11: a search whose query string is empty or only whitespace is refused
\* with an input error, and neither the lexical ranking nor the query
\* embedding nor the vector ranking was started for it.
C11_BlankQueryRejectedFirst ==
    (Handled /\ AllSpaces(req.q)) =>
        /\ resp.status \in {"400", "422"}
        /\ resp.ran = {}

\* C11 witness: a whitespace-only query was refused with nothing run.
C11_Witness ==
    /\ Handled
    /\ req.q # <<>>
    /\ AllSpaces(req.q)
    /\ resp.status = "400"
    /\ resp.ran = {}

\* C12: every vector score that enters fusion lies within [0,1] (1 - distance,
\* clamped), whatever distance the store returned.
C12_VectorScoreClamped ==
    Answered => \A i \in 1..Len(resp.vec) : resp.vec[i].score \in 0..100

\* The lexical rows the v0.10 search reads: the k best matching messages.
RawLex == Take(SelectSeq(lexHits, IsMessage), resp.k)

\* The largest raw rank of the rows read.
RawMax == CHOOSE m \in {RawLex[i].score : i \in 1..Len(RawLex)} :
              \A i \in 1..Len(RawLex) : RawLex[i].score <= m

\* C13: in the v0.10 search every lexical row read yields one lexical
\* candidate whose normalised score is the raw rank divided by the largest raw
\* rank of the rows read and lies within [0,1]; no rows read, no candidate.
C13_LexicalNormalised ==
    (Answered /\ resp.impl = "query") =>
        /\ Len(resp.lex) = Len(RawLex)
        /\ \A i \in 1..Len(RawLex) :
               /\ resp.lex[i].id = RawLex[i].id
               /\ resp.lex[i].score \in 0..100
               /\ resp.lex[i].score * RawMax = RawLex[i].score * 100

\* C13 witness: two lexical rows were read, the largest raw rank is not 1.0,
\* and normalisation changed a score.
C13_Witness ==
    /\ Answered
    /\ resp.impl = "query"
    /\ Len(RawLex) >= 2
    /\ \E i \in 1..Len(RawLex) : resp.lex[i].score # RawLex[i].score
    /\ \E i \in 1..Len(RawLex) : resp.lex[i].score = 0

\* C14: for two entries A and B of the fused list of an answered search, if
\* A's lexical score and A's vector score (0 when missing) are each at least
\* B's, then A's fused score is at least B's.
C14_FusionMonotone ==
    Answered =>
        \A a, b \in 1..Len(resp.fused) :
            LET A == <<resp.fused[a].id, resp.fused[a].kind>>
                B == <<resp.fused[b].id, resp.fused[b].kind>>
            IN (/\ ScoreIn(resp.lex, A) >= ScoreIn(resp.lex, B)
                /\ ScoreIn(resp.vec, A) >= ScoreIn(resp.vec, B))
                   => resp.fused[a].score >= resp.fused[b].score

\* C15: a search that would otherwise be answered is still answered when
\* exactly one of its rankings raises, with the fusion of the other ranking
\* alone; it fails only when both rankings raise.
C15_OnePathFailureDegrades ==
    (Handled /\ ~Blank(req.q) /\ req.k \in 1..50 /\ WeightsSumToOne) =>
        /\ fail = {"lexical"} => Answered /\ resp.lex = <<>>
        /\ fail = {"vector"} => Answered /\ resp.vec = <<>>
        /\ fail = Paths => ~Answered

(***************************************************************************)
(* Claims about context assembly.                                          *)
(***************************************************************************)
StitchHandled == sresp.status # "pending"

StitchAnswered == sresp.status = "ok"

RagHandled == ragResp.status # "pending"

RagAnswered == ragResp.status = "ok"

\* The item no longer exists when the stitcher runs.
Missing(kd, id) == <<kd, id>> \in gone \/ (kd = "memory_card" /\ id \in deleted)

\* C16: a stitched request whose rankings hold hits of items that no longer
\* exist is answered; a memory card deleted before the search is in neither
\* the cards nor the contexts of the search, and no item that is missing when
\* the stitcher runs is in a card block, a thread block or a citation.
C16_DeletedItemsDropped ==
    (StitchHandled /\ ~AllSpaces(req.q) /\ fail = {}) =>
        /\ StitchAnswered
        /\ \A i \in 1..Len(sresp.search.vec) : sresp.search.vec[i].id \notin deleted
        /\ \A i \in 1..Len(sresp.search.contexts) :
               IsCard(sresp.search.contexts[i])
                   => sresp.search.contexts[i].id \notin deleted
        /\ \A i \in 1..Len(sresp.card_blocks) :
               ~Missing("memory_card", sresp.card_blocks[i])
        /\ \A i \in 1..Len(sresp.thread_blocks) :
               \A j \in 1..Len(sresp.thread_blocks[i].msgs) :
                   ~Missing("message", sresp.thread_blocks[i].msgs[j])
        /\ \A i \in 1..Len(sresp.citations) :
               ~Missing(sresp.citations[i].type, sresp.citations[i].id)

\* C16 witness: an answered stitched request that ranked a memory card deleted
\* before the search and an item deleted after it, and still cites something.
C16_Witness ==
    /\ StitchAnswered
    /\ deleted # {}
    /\ gone # {}
    /\ Len(sresp.citations) > 0

\* The token estimate of a list of contexts: the sum of floor(len / 4).
RECURSIVE SumTokens(_)
SumTokens(ctxs) ==
    IF ctxs = <<>> THEN 0
    ELSE (Head(ctxs).len \div 4) + SumTokens(Tail(ctxs))

\* C17: the contexts of an answered /rag request have a total token estimate,
\* the sum of floor(len(content) / 4), of at most max_context_tokens, and that
\* sum is the total the response reports.
C17_TotalWithinBudget ==
    RagAnswered =>
        /\ SumTokens(ragResp.contexts) <= ragReq.max_context_tokens
        /\ ragResp.total_context_tokens = SumTokens(ragResp.contexts)

\* C17 witness: an answered /rag request that accepted a context and left a
\* returned message out.
C17_Witness ==
    /\ RagAnswered
    /\ Len(ragResp.contexts) >= 1
    /\ Len(ragResp.contexts) < Len(ragHits)

\* C18: a /rag request with a non-blank query, a valid max_results and any
\* positive token budget is answered with whole blocks only: the contexts are
\* the blocks of a prefix of the returned messages, each with its full
\* content, and the first block left out (and every block after it) is one
\* that would have pushed the total over the budget.
C18_WholeBlocksOrNone ==
    (RagHandled /\ ~AllSpaces(ragReq.q) /\ ragReq.max_results \in 1..50
                /\ ragReq.max_context_tokens > 0 /\ ragFail = "none") =>
        LET ctx == ragResp.contexts
            n == Len(ragResp.contexts)
            inc == ragReq.include_conversation_context
        IN /\ RagAnswered
           /\ n <= Len(ragHits)
           /\ \A i \in 1..n : /\ ctx[i].source_id = ragHits[i].id
                              /\ ctx[i].len = ContentLen(ragHits[i], inc)
           /\ n < Len(ragHits) =>
                  SumTokens(ctx) + (ContentLen(ragHits[n + 1], inc) \div 4)
                      > ragReq.max_context_tokens

\* C19: the citations of an answered stitched request hold no two entries
\* with the same (type, id).
C19_NoDuplicateCitations ==
    StitchAnswered =>
        \A i, j \in 1..Len(sresp.citations) :
            i # j => <<sresp.citations[i].type, sresp.citations[i].id>>
                     # <<sresp.citations[j].type, sresp.citations[j].id>>

\* C20: in an answered stitched request no memory card has two card blocks
\* and no message is expanded into two thread blocks, also when the contexts
\* of the search hold the same (kind, id) more than once.
C20_OneBlockPerCandidate ==
    StitchAnswered =>
        /\ \A i, j \in 1..Len(sresp.card_blocks) :
               i # j => sresp.card_blocks[i] # sresp.card_blocks[j]
        /\ \A i, j \in 1..Len(sresp.thread_blocks) :
               i # j => sresp.thread_blocks[i].mid # sresp.thread_blocks[j].mid

\* C20 witness: the contexts hold one memory card twice and the card has its
\* one block.
C20_Witness ==
    /\ StitchAnswered
    /\ \E i, j \in 1..Len(sresp.search.contexts) :
           /\ i < j
           /\ sresp.search.contexts[i].id = sresp.search.contexts[j].id
           /\ IsCard(sresp.search.contexts[i])
           /\ IsCard(sresp.search.contexts[j])
           /\ \E b \in 1..Len(sresp.card_blocks) :
                  sresp.card_blocks[b] = sresp.search.contexts[i].id

(***************************************************************************)
(* Claims about neighbours, prompts and citations.                         *)
(***************************************************************************)
\* The messages of the thread of m that exist and were created before m.
EarlierInThread(m) ==
    {n \in Stored : /\ ~Missing("message", n)
                    /\ threadOf[n] = threadOf[m]
                    /\ createdAt[n] < createdAt[m]}

\* The messages of the thread of m that exist and were created after m.
LaterInThread(m) ==
    {n \in Stored : /\ ~Missing("message", n)
                    /\ threadOf[n] = threadOf[m]
                    /\ createdAt[n] > createdAt[m]}

C25_TiesBrokenByIdentifier ==
    StitchAnswered =>
        \A b \in 1..Len(sresp.thread_blocks) :
            \A p \in PrevChoices(sresp.thread_blocks[b].mid) :
                \A n \in NextChoices(sresp.thread_blocks[b].mid) :
                    sresp.thread_blocks[b].msgs
                        = SelectSeq(<<p, sresp.thread_blocks[b].mid, n>>, NotNone)

\* C28: the contexts returned by hybrid_search (here to the stitched request
\* that called it) hold each (type, id) at most once.
C28_ContextsUniquePerItem ==
    sresp.search.status = "ok" =>
        \A i, j \in 1..Len(sresp.search.contexts) :
            i # j => <<sresp.search.contexts[i].kind, sresp.search.contexts[i].id>>
                     # <<sresp.search.contexts[j].kind, sresp.search.contexts[j].id>>

\* The source tags of the blocks in the order in which the candidates are
\* iterated: one per candidate that is still present, the first time it occurs.
RECURSIVE TagsInOrder(_, _)
TagsInOrder(ctxs, done) ==
    IF ctxs = <<>> THEN <<>>
    ELSE LET item == Head(ctxs)
             key == <<item.kind, item.id>>
             tag == IF IsCard(item) THEN <<"memory_card", item.id>>
                    ELSE <<"thread", threadOf[item.id]>>
         IN (IF key \in done \/ Missing(item.kind, item.id) THEN <<>> ELSE <<tag>>)
            \o TagsInOrder(Tail(ctxs), done \cup {key})

\* C24: the prompt of an answered stitched request is the tagged blocks in
\* the order of their candidates in the contexts of the search, which is by
\* non-increasing fused score, followed by the line of the literal query.
C24_PromptInCandidateOrder ==
    StitchAnswered =>
        /\ \A i, j \in 1..Len(sresp.search.contexts) :
               i < j => sresp.search.contexts[i].score >= sresp.search.contexts[j].score
        /\ sresp.prompt = TagsInOrder(sresp.search.contexts, {})
                              \o << <<"USER QUERY", req.q>> >>

(***************************************************************************)
(* Claims about termination of the embedding pipeline.                     *)
(***************************************************************************)
\* The passes a stream of pipeline p can still make, counted twice, plus one
\* when the next step is a pull; the message stream counts above every value
\* of the memory card stream; 0 once the call has ended.
Rank(p) ==
    IF ~Active(p) THEN 0
    ELSE LET span == 2 * (nMessages + nCards + batch_size) + 2
             left == 2 * (Cardinality(Items(kind[p])) + batch_size - offset[p])
         IN (IF kind[p] = "message" THEN span ELSE 0)
            + left + (IF pc[p] = "fetch" THEN 1 ELSE 0)

\* C27: a called process_embedding_pipeline can always take a step until it
\* has returned or raised, and each of its steps (a pull, an end of stream, a
\* pass of the loop body, a failure) lowers a non-negative integer rank that
\* depends only on the store size, the batch size and the stream position:
\* the call ends after finitely many pulls, whether or not the pulled items
\* obtained a record.
C27_PipelineTerminates ==
    /\ [](\A p \in Pipelines : Active(p) => ENABLED PipelineStep(p))
    /\ [][\A p \in Pipelines :
              (Active(p) /\ <<pc[p], kind[p], offset[p]>>' # <<pc[p], kind[p], offset[p]>>)
                  => (Rank(p)' >= 0 /\ Rank(p)' < Rank(p))]_vars

\* C27 witness: one call has returned and another has raised after pulling
\* an item that has no record.
C27_Witness ==
    \E p, q \in Pipelines :
        /\ pc[p] = "done"
        /\ pc[q] = "raised"
        /\ \E i \in batch[q] : ~HasRecord(kind[q], i)

(***************************************************************************)
(* Claims about the embedding statistics.                                  *)
(***************************************************************************)
\* C29: for each content kind, get_embedding_stats reports embedded <= total,
\* pending >= 0 and a completion of at most 100 percent (10000 hundredths).
C29_StatsWithinTotals ==
    mstats.status = "ok" =>
        \A st \in {mstats.messages, mstats.memory_cards} :
            /\ st.embedded <= st.total
            /\ st.pending >= 0
            /\ st.completion_percent <= 10000

(***************************************************************************)
(* Claims about error responses.                                           *)
(***************************************************************************)
\* C23: every failure response of the /rag endpoint carries a kind from the
\* fixed set of error codes (or the framework's request validation kind) and
\* a non-empty message, and no part of the message is the text of the
\* exception that was raised inside the handler.
C23_StructuredErrorsNoInternalText ==
    (RagHandled /\ ~RagAnswered) =>
        /\ ragResp.error.code \in ErrorCodes \cup {"request_validation"}
        /\ ragResp.error.message # <<>>
        /\ \A i \in 1..Len(ragResp.error.message) :
               \A f \in RagFailures \ {"none"} :
                   ragResp.error.message[i] # ExceptionText(f)

(***************************************************************************)
(* Claims about ClaudeParser.                                              *)
(***************************************************************************)
\* C26: after any sequence of parse_export and reset_stats calls,
\* get_stats()['messages_parsed'] is the number of messages in the data of
\* the results since construction or the last reset,
\* get_stats()['artifacts_extracted'] is the number of artifacts attached to
\* those messages, and right after reset_stats every counter is 0.
C26_StatsMatchReturnedData ==
    /\ GetStats.messages_parsed = delivered.messages
    /\ GetStats.artifacts_extracted = delivered.artifacts
    /\ last_op = "reset_stats" => \A k \in DOMAIN GetStats : GetStats[k] = 0

\* C30: a parse_export call in lenient mode that returns success accounts for
\* every input message: the messages in result.data plus the entries of
\* result.warnings are as many as the input messages.
C30_LenientAccountsForEveryMessage ==
    (~strict_mode /\ last_op = "parse_export" /\ result.state = "success") =>
        Len(result.data) + Len(result.warnings) = Len(export.messages)


\* C22: hybrid search and context assembly only read. Whatever handlers the
\* clients call, however many times, one after the other or with their
\* statements interleaved, no step of a call changes the set of messages, the
\* set of memory cards or the rows of mhe.embedding.
C22_SearchOnlyReads ==
    [][UNCHANGED <<nMessages, nCards, embedding>>]_vars

\* Two calls overlapped, every client has had a call return, one of the calls
\* was the stitched RAG query and read rows of all three tables.
C22_Witness ==
    /\ rconc
    /\ \A c \in Readers : rcalls[c] >= 1 /\ ~InCall(c)
    /\ \E c \in Readers :
           /\ rop[c] = "rag_query"
           /\ \A t \in {"message", "memory_card", "embedding"} :
                  \E r \in rrows[c] : r[1] = t
====
